---- MODULE Spec2Model ----
(***************************************************************************)
(* Model of the streaming scanner (src/src/scanner) and of the             *)
(* transactional organizer with its journal and rollback (src/organize.py, *)
(* src/utils.py).                                                          *)
(*                                                                         *)
(* ScanSpec   : one scan_batches call over a small directory tree.         *)
(* OrgSpec    : organize_projects runs and rollback calls over one journal *)
(*              and one small file system.                                 *)
(***************************************************************************)
EXTENDS Integers, Sequences, FiniteSets, TLC

(***************************************************************************)
(* Bounds of the model.                                                    *)
(***************************************************************************)
MaxBatchSize == 2

MaxFaults == 2

MaxTime == 1

\* source paths attempted by organize runs, plus malformed lines put into
\* the journal and files deleted from outside, in one behaviour
MaxOps == 3

\* symbolic links the operating system follows in one path before it
\* refuses with "too many levels of symbolic links" (40 on Linux)
MaxSymlinks == 1

(***************************************************************************)
(* The scanned tree.  Listing(d) is the order in which os.scandir returns  *)
(* the entries of d.                                                       *)
(***************************************************************************)
Roots == <<"r1", "r2">>

Dirs == {"r1", "r2", "d1", "d2", "d3", "d4", "d5"}

Files == {"f1", "f2", "f3", "f4"}

Others == {"o1"}

\* symbolic links to directories: l1, inside d2, points back to d1
Links == {"l1"}

Target(l) == "d1"

Listing(d) ==
    CASE d = "r1" -> <<"f1", "d1", "o1", "f2">>
      [] d = "d1" -> <<"d2", "f3">>
      [] d = "d2" -> <<"l1">>
      [] d = "r2" -> <<"f4", "d3", "d4", "d5">>
      [] OTHER    -> <<>>

NoDir == "-"

\* An entry's name, one character per element, as fnmatch reads it.
Name(e) ==
    CASE e = "f1" -> <<"f", "1">>
      [] e = "f2" -> <<"f", "2">>
      [] e = "f3" -> <<"f", "3">>
      [] e = "f4" -> <<"f", "4">>
      [] e = "d1" -> <<"d", "1">>
      [] e = "d2" -> <<"d", "2">>
      [] e = "d3" -> <<"d", "3">>
      [] e = "d4" -> <<"d", "4">>
      [] e = "d5" -> <<"d", "5">>
      [] e = "o1" -> <<"o", "1">>
      [] e = "l1" -> <<"l", "1">>

\* the walker's position when no directory is open
NoCur == [dir |-> NoDir, depth |-> 0, rel |-> <<>>, links |-> 0]

NoPath == "-"

\* ScanOptions.max_depth = None, overall_timeout = None, per_batch_timeout = None
NoLimit == -1

\* ScanState.start_time: the clock value at construction
start_time == 0

VARIABLES
    \* ---- scanner: ScanOptions and the call's arguments
    opts,
    \* ---- scanner: DirectoryWalker._walk_root
    rootIdx, stack, cur, pos,
    \* ---- scanner: scan_batches locals and ScanState
    pc, path, batch, errors, pending_errors,
    processed, discovered, skipped, errs, current_path,
    token, now, last_batch_time, last_callback_time,
    \* ---- scanner: what the consumer and the callback received
    yielded, events,
    \* ---- scanner: the two files of run_scan_to_files
    writer, safe_writer,
    \* ---- scanner: history
    visited, faults, handledAtCancel, yieldedAfterCancel,
    \* ---- organizer: the file system and the journal file
    fs, journal, journal_exists,
    \* ---- organizer: organize_projects
    opc, cfg, journal_entries, lastDoc,
    \* ---- organizer: rollback
    rb_lines, rb_idx, rb_result,
    \* ---- organizer: history (outside: a file was deleted from outside
    \*      since the latest run started)
    fs0, fsBeforeRb, moved, orgOutcome, rbSince, nops, outside

walkVars == <<rootIdx, stack, cur, pos>>

ctrVars == <<processed, discovered, skipped, errs>>

timeVars == <<now, last_batch_time, last_callback_time>>

histVars == <<visited, faults, handledAtCancel, yieldedAfterCancel>>

fileVars == <<writer, safe_writer>>

scanVars ==
    <<opts, rootIdx, stack, cur, pos, pc, path, batch, errors, pending_errors,
      processed, discovered, skipped, errs, current_path, token, now,
      last_batch_time, last_callback_time, yielded, events, writer, safe_writer,
      visited, faults, handledAtCancel, yieldedAfterCancel>>

orgVars ==
    <<fs, journal, journal_exists, opc, cfg, journal_entries, lastDoc,
      rb_lines, rb_idx, rb_result,
      fs0, fsBeforeRb, moved, orgOutcome, rbSince, nops, outside>>

vars == <<scanVars, orgVars>>

(***************************************************************************)
(* Helpers.                                                                *)
(***************************************************************************)
Min(a, b) == IF a <= b THEN a ELSE b

\* time.perf_counter(): monotonic; the last tick MaxTime stands for every
\* later instant.
ClockReads == now..MaxTime

\* An injected I/O failure (missing root, failing scandir, failing stat) is
\* possible while the fault budget lasts.
MayFail == faults < MaxFaults

Outcomes == IF MayFail THEN {TRUE, FALSE} ELSE {TRUE}

\* What a progress callback or a consumer may do to the token.
CancelChoices == IF opts.has_token THEN {TRUE, FALSE} ELSE {FALSE}

\* CancellationToken.cancel(), with the number of files handled so far
\* remembered the first time the token is set.
Cancel(c) ==
    /\ token' = (token \/ c)
    /\ handledAtCancel' = IF c /\ ~token THEN discovered ELSE handledAtCancel

NoCancel == UNCHANGED <<token, handledAtCancel>>

EnsureLimitsNoCancel(t) ==
    IF opts.overall_timeout # NoLimit /\ t - start_time >= opts.overall_timeout
    THEN "timeout"
    ELSE IF opts.per_batch_timeout # NoLimit
            /\ t - last_batch_time >= opts.per_batch_timeout
         THEN "timeout"
         ELSE "ok"

\* a faulty variant: the overall timeout fires only once it is exceeded
EnsureLimitsStrict(t) ==
    IF opts.has_token /\ token
    THEN "cancelled"
    ELSE IF opts.overall_timeout # NoLimit /\ t - start_time > opts.overall_timeout
         THEN "timeout"
         ELSE IF opts.per_batch_timeout # NoLimit
                 /\ t - last_batch_time >= opts.per_batch_timeout
              THEN "timeout"
              ELSE "ok"

\* a faulty variant: the batch timeout fires only once it is exceeded
EnsureLimitsBatchLate(t) ==
    IF opts.has_token /\ token
    THEN "cancelled"
    ELSE IF opts.overall_timeout # NoLimit /\ t - start_time >= opts.overall_timeout
         THEN "timeout"
         ELSE IF opts.per_batch_timeout # NoLimit
                 /\ t - last_batch_time > opts.per_batch_timeout
              THEN "timeout"
              ELSE "ok"

\* _ensure_limits: "cancelled" and "timeout" are the two exceptions raised.
EnsureLimits(t) ==
    IF opts.has_token /\ token
    THEN "cancelled"
    ELSE IF opts.overall_timeout # NoLimit /\ t - start_time >= opts.overall_timeout
         THEN "timeout"
         ELSE IF opts.per_batch_timeout # NoLimit
                 /\ t - last_batch_time >= opts.per_batch_timeout
              THEN "timeout"
              ELSE "ok"

\* a faulty variant: the remaining count is taken the wrong way round
EtaSigned(p, d, t) ==
    IF p > 0 /\ d # p
    THEN <<((t - start_time) * (p - d) * 100) \div p>>
    ELSE IF p > 0 THEN <<0>> ELSE <<>>

\* ScanState.snapshot, eta_seconds: <<>> is None, <<v>> is v hundredths of
\* a second
Eta(p, d, t) ==
    LET elapsed == IF t - start_time >= 0 THEN t - start_time ELSE 0
        remaining == IF d - p >= 0 THEN d - p ELSE 0
    IN  IF p > 0 /\ remaining > 0
        THEN LET hundredths == (elapsed * remaining * 100) \div p
             IN  <<IF hundredths >= 0 THEN hundredths ELSE 0>>
        ELSE IF p > 0 /\ remaining = 0 THEN <<0>> ELSE <<>>

\* the ProgressStats built by ScanState.snapshot from the given counters
Stats(p, d, s, t) ==
    [processed |-> p, discovered |-> d, skipped |-> s, eta_seconds |-> Eta(p, d, t)]

\* ScanState.snapshot(now)
Snapshot(t) == Stats(processed, discovered, skipped, t)

\* ScanState.should_emit_progress
ShouldEmitProgress(t) ==
    IF ~opts.has_callback
    THEN FALSE
    ELSE IF opts.throttle_interval <= 0
         THEN TRUE
         ELSE t - last_callback_time >= opts.throttle_interval

\* The ProgressEvent built by ScanState.emit_progress.
ProgressEvent(st, cp) == [stats |-> st, current_path |-> cp]

BatchFullLate(b) == Len(b) > opts.batch_size

\* runner.py 91: the batch is yielded once it holds batch_size records
BatchFull(b) == Len(b) >= opts.batch_size

FinalBatchDueRecordsOnly(b, e) == b # <<>>

\* runner.py 103: the last batch is yielded when it holds records or errors
FinalBatchDue(b, e) == b # <<>> \/ e # <<>>

\* The walker pushes a directory unless it lies deeper than max_depth.
DepthAllows(depth) == opts.max_depth = NoLimit \/ depth + 1 <= opts.max_depth

\* fnmatch.fnmatchcase for patterns of literal characters and "*": the star
\* stands for any run of characters, "/" included.
RECURSIVE FnMatchCase(_, _)
FnMatchCase(name, pat) ==
    IF pat = <<>>
    THEN name = <<>>
    ELSE IF Head(pat) = "*"
         THEN FnMatchCase(name, Tail(pat))
              \/ (name # <<>> /\ FnMatchCase(Tail(name), pat))
         ELSE /\ name # <<>>
              /\ Head(name) = Head(pat)
              /\ FnMatchCase(Tail(name), Tail(pat))

\* entry_path.relative_to(root).as_posix() for an entry of the directory
\* whose own relative path is rel
RelPosix(rel, entry) == IF rel = <<>> THEN Name(entry) ELSE rel \o <<"/">> \o Name(entry)

\* DirectoryWalker._match_include
MatchInclude(rel) == \E pattern \in opts.include : FnMatchCase(rel, pattern)

\* a faulty variant: directories are tested like files, without the "/" form
IsExcludedNoSlash(rel, is_dir) ==
    \E pattern \in opts.exclude : FnMatchCase(rel, pattern)

\* DirectoryWalker._is_excluded
IsExcluded(rel, is_dir) ==
    \/ \E pattern \in opts.exclude : FnMatchCase(rel, pattern)
    \/ is_dir /\ \E pattern \in opts.exclude : FnMatchCase(rel \o <<"/">>, pattern)

(***************************************************************************)
(* The organizer's world.  A path is a directory and a file name; a name   *)
(* is the base name x.txt followed by the version suffixes it has          *)
(* collected: <<>> is x.txt, <<[h |-> "h1", c |-> 0]>> is x__h1.txt,       *)
(* <<[h |-> "h1", c |-> 2]>> is x__h1_2.txt.  All files share the base     *)
(* name, the case every conflict policy is about, and all sources go to    *)
(* the one project directory Tp.                                           *)
(***************************************************************************)
Labels == {"Tp"}

\* organize.py 125, 138-139: target_root / label / bucket, bucket "misc"
TargetDir(label) == label

FilePath(d, n) == [dir |-> d, name |-> n]

\* JournalRecord.destination = None, or a key missing from a journal line
Absent == FilePath("-", <<>>)

OutsideFiles ==
    [p \in {FilePath("a", <<>>), FilePath("b", <<>>)} |->
        IF p.dir = "a" THEN "A" ELSE "B"]

\* the same, with a file already lying in the target tree
WithTargetFile ==
    [p \in DOMAIN OutsideFiles \cup {FilePath("Tp", <<>>)} |->
        IF p \in DOMAIN OutsideFiles THEN OutsideFiles[p] ELSE "C"]

\* utils.blake3_path_hash: 7 characters of a digest of the content; two
\* different contents may share them
Hash7(content) ==
    CASE content = "A" -> "h1"
      [] content = "B" -> "h2"
      [] content = "C" -> "h1"

Modes == {"move", "copy"}

Conflicts == {"version", "skip", "overwrite"}

NoCfg == [mode |-> "-", conflict |-> "-"]

NoDoc == [label |-> "-", src |-> Absent]

\* the organizer at rest, as ScanSpec leaves it
OrgOff ==
    /\ fs = OutsideFiles
    /\ journal = <<>>
    /\ journal_exists = FALSE
    /\ opc = "off"
    /\ cfg = NoCfg
    /\ journal_entries = <<>>
    /\ lastDoc = NoDoc
    /\ rb_lines = <<>>
    /\ rb_idx = 0
    /\ rb_result = "none"
    /\ fs0 = OutsideFiles
    /\ fsBeforeRb = OutsideFiles
    /\ moved = <<>>
    /\ orgOutcome = "none"
    /\ rbSince = 0
    /\ nops = 0
    /\ outside = FALSE

(***************************************************************************)
(* ScanOptions and call arguments of one scan.                             *)
(***************************************************************************)
TimeoutChoices ==
    { [overall |-> NoLimit, per_batch |-> NoLimit],
      [overall |-> 0,       per_batch |-> NoLimit],
      [overall |-> MaxTime, per_batch |-> NoLimit],
      [overall |-> NoLimit, per_batch |-> MaxTime] }

\* JsonArrayWriter.__init__: the array is open and empty
JsonArrayWriter == [items |-> <<>>, closed |-> FALSE]

\* SafeMapWriter.__init__: the object is open and empty
SafeMapWriter == [entries |-> <<>>, closed |-> FALSE]

\* utils.sha256_text(str(path)): the full digest, one per path
SafeId(p) == <<"sha256", p>>

\* scan_batches before its first step: a fresh ScanState, walker and batch
ScanFresh ==
    /\ rootIdx = 1
    /\ stack = <<>>
    /\ cur = NoCur
    /\ pos = 1
    /\ pc = "walk"
    /\ path = NoPath
    /\ batch = <<>>
    /\ errors = <<>>
    /\ pending_errors = <<>>
    /\ processed = 0
    /\ discovered = 0
    /\ skipped = 0
    /\ errs = 0
    /\ current_path = NoPath
    /\ token = FALSE
    /\ now = 0
    /\ last_batch_time = 0
    /\ last_callback_time = 0
    /\ yielded = <<>>
    /\ events = <<>>
    /\ writer = JsonArrayWriter
    /\ safe_writer = SafeMapWriter
    /\ visited = <<>>
    /\ faults = 0
    /\ handledAtCancel = -1
    /\ yieldedAfterCancel = FALSE
    /\ OrgOff

ScanInit ==
    /\ \E bs \in 1..MaxBatchSize, md \in {NoLimit, 1}, to \in TimeoutChoices,
          th \in {0, 1}, tk \in BOOLEAN, cb \in BOOLEAN :
          opts = [batch_size |-> bs, max_depth |-> md,
                  overall_timeout |-> to.overall,
                  per_batch_timeout |-> to.per_batch,
                  throttle_interval |-> th,
                  has_token |-> tk, has_callback |-> cb,
                  include |-> {}, exclude |-> {},
                  roots |-> Roots, to_files |-> FALSE,
                  follow_symlinks |-> FALSE]
    /\ ScanFresh

\* include and exclude patterns, one character per element
IncludeChoices == { {}, {<<"f", "*">>}, {<<"*", "3">>} }

ExcludeChoices == { {}, {<<"d", "1">>}, {<<"d", "1", "/">>}, {<<"*", "3">>} }

\* scans that differ in their filters only
FilterInit ==
    /\ \E md \in {NoLimit, 0, 1}, inc \in IncludeChoices, exc \in ExcludeChoices :
          opts = [batch_size |-> 1, max_depth |-> md,
                  overall_timeout |-> NoLimit,
                  per_batch_timeout |-> NoLimit,
                  throttle_interval |-> 0,
                  has_token |-> TRUE, has_callback |-> FALSE,
                  include |-> inc, exclude |-> exc,
                  roots |-> Roots, to_files |-> FALSE,
                  follow_symlinks |-> FALSE]
    /\ ScanFresh

(***************************************************************************)
(* _make_error_handler._handle: the walker reports a failing root or       *)
(* directory.                                                              *)
(***************************************************************************)
Handle(p) ==
    /\ skipped' = skipped + 1
    /\ errs' = errs + 1
    /\ pending_errors' = Append(pending_errors, p)
    /\ current_path' = p
    /\ visited' = Append(visited, p)
    /\ faults' = faults + 1
    /\ IF opts.has_callback
       THEN \E t \in ClockReads, c \in CancelChoices :
               /\ now' = t
               /\ last_callback_time' = t
               /\ events' = Append(events,
                      ProgressEvent(Stats(processed, discovered, skipped + 1, t), p))
               /\ Cancel(c)
       ELSE /\ UNCHANGED <<now, last_callback_time, events>>
            /\ NoCancel
    /\ UNCHANGED <<processed, discovered, last_batch_time, yieldedAfterCancel>>

WalkQuiet ==
    UNCHANGED <<skipped, errs, pending_errors, current_path, visited, faults,
                now, last_callback_time, events, token, handledAtCancel,
                processed, discovered, last_batch_time, yieldedAfterCancel>>

(***************************************************************************)
(* DirectoryWalker.iter_files / _walk_root, one step of the generator at a *)
(* time.  It runs while scan_batches waits for the next path.              *)
(***************************************************************************)
Idle == cur.dir = NoDir /\ stack = <<>>

\* walker.py 30-34: a missing root is reported; an existing one is stacked
WalkRootMissing ==
    /\ pc = "walk" /\ Idle /\ rootIdx <= Len(opts.roots) /\ MayFail
    /\ Handle(opts.roots[rootIdx])
    /\ rootIdx' = rootIdx + 1
    /\ UNCHANGED <<orgVars, fileVars, opts, stack, cur, pos, pc, path, batch, errors, yielded>>

WalkRoot ==
    /\ pc = "walk" /\ Idle /\ rootIdx <= Len(opts.roots)
    /\ stack' = <<[dir |-> opts.roots[rootIdx], depth |-> 0, rel |-> <<>>, links |-> 0]>>
    /\ rootIdx' = rootIdx + 1
    /\ WalkQuiet
    /\ UNCHANGED <<orgVars, fileVars, opts, cur, pos, pc, path, batch, errors, yielded>>

\* walker.py 38-40: pop the stack and open the directory
WalkPop ==
    /\ pc = "walk" /\ cur.dir = NoDir /\ stack # <<>>
    /\ cur' = stack[Len(stack)]
    /\ stack' = SubSeq(stack, 1, Len(stack) - 1)
    /\ pos' = 1
    /\ WalkQuiet
    /\ UNCHANGED <<orgVars, fileVars, opts, rootIdx, pc, path, batch, errors, yielded>>

\* walker.py 61-62: scandir (opening or iterating) raises OSError
WalkScandirFails ==
    /\ pc = "walk" /\ cur.dir # NoDir /\ MayFail
    /\ Handle(cur.dir)
    /\ cur' = NoCur
    /\ UNCHANGED <<orgVars, fileVars, opts, rootIdx, stack, pos, pc, path, batch, errors, yielded>>

\* walker.py 41-60: one entry of the directory being listed
WalkEntry ==
    /\ pc = "walk" /\ cur.dir # NoDir /\ pos <= Len(Listing(cur.dir))
    /\ LET entry == Listing(cur.dir)[pos]
           rel_posix == RelPosix(cur.rel, entry)
           followed == entry \in Links /\ opts.follow_symlinks
           is_dir == entry \in Dirs \/ followed
       IN
         IF followed /\ cur.links >= MaxSymlinks
         THEN \* entry.is_dir raises OSError (too many levels of symbolic
              \* links): the listing is given up and the directory reported
              /\ Handle(cur.dir)
              /\ cur' = NoCur
              /\ UNCHANGED <<pos, stack, pc, path>>
         ELSE
         /\ pos' = pos + 1
         /\ IF IsExcluded(rel_posix, is_dir)
            THEN UNCHANGED <<stack, pc, path, visited, yieldedAfterCancel>>
            ELSE IF is_dir
            THEN /\ stack' = IF DepthAllows(cur.depth)
                             THEN Append(stack,
                                    [dir |-> IF followed THEN Target(entry) ELSE entry,
                                     depth |-> cur.depth + 1,
                                     rel |-> rel_posix,
                                     links |-> IF followed THEN cur.links + 1
                                                           ELSE cur.links])
                             ELSE stack
                 /\ UNCHANGED <<pc, path, visited, yieldedAfterCancel>>
            ELSE IF entry \in Files /\ (opts.include = {} \/ MatchInclude(rel_posix))
                 THEN /\ pc' = "head"
                      /\ path' = entry
                      /\ visited' = Append(visited, entry)
                      /\ yieldedAfterCancel' = (yieldedAfterCancel \/ token)
                      /\ UNCHANGED stack
                 ELSE UNCHANGED <<stack, pc, path, visited, yieldedAfterCancel>>
         /\ UNCHANGED <<cur, skipped, errs, pending_errors, current_path, faults,
                        now, last_callback_time, events, token, handledAtCancel,
                        processed, discovered, last_batch_time>>
    /\ UNCHANGED <<orgVars, fileVars, opts, rootIdx, batch, errors, yielded>>

\* the listing is exhausted: back to the stack
WalkDirEnd ==
    /\ pc = "walk" /\ cur.dir # NoDir /\ pos > Len(Listing(cur.dir))
    /\ cur' = NoCur
    /\ WalkQuiet
    /\ UNCHANGED <<orgVars, fileVars, opts, rootIdx, stack, pos, pc, path, batch, errors, yielded>>

\* iter_files is exhausted: the for loop of scan_batches ends
WalkEnd ==
    /\ pc = "walk" /\ Idle /\ rootIdx > Len(opts.roots)
    /\ pc' = "final"
    /\ WalkQuiet
    /\ UNCHANGED <<orgVars, fileVars, opts, rootIdx, stack, cur, pos, path, batch, errors, yielded>>

(***************************************************************************)
(* scan_batches, the body of the for loop.                                 *)
(***************************************************************************)
Raised == {"cancelled", "timeout"}

\* runner.py 143-145: run_scan_to_files writes the records of the batch it
\* has just received; another consumer of scan_batches writes nothing
WriteBatch(records) ==
    IF opts.to_files
    THEN /\ writer' = [writer EXCEPT !.items = @ \o records]
         /\ safe_writer' =
               [safe_writer EXCEPT !.entries =
                   @ \o [i \in 1..Len(records) |->
                            [safe_id |-> SafeId(records[i]), path |-> records[i]]]]
    ELSE UNCHANGED fileVars

\* a faulty variant: the files are terminated on normal completion only
WithExitOnSuccess(leaving, failed) ==
    IF opts.to_files /\ leaving /\ ~failed
    THEN /\ writer' = [writer EXCEPT !.closed = TRUE]
         /\ safe_writer' = [safe_writer EXCEPT !.closed = TRUE]
    ELSE UNCHANGED fileVars

\* runner.py 137: leaving the with block, by the end of the loop or by an
\* exception of scan_batches, closes both writers (__exit__ calls close)
WithExit(leaving, failed) ==
    IF opts.to_files /\ leaving
    THEN /\ writer' = [writer EXCEPT !.closed = TRUE]
         /\ safe_writer' = [safe_writer EXCEPT !.closed = TRUE]
    ELSE UNCHANGED fileVars

\* runner.py 62-66: take over the walker's errors, first guard check
LoopHead ==
    /\ pc = "head"
    /\ errors' = errors \o pending_errors
    /\ pending_errors' = <<>>
    /\ \E t \in ClockReads :
          /\ now' = t
          /\ pc' = IF EnsureLimits(t) = "ok" THEN "process" ELSE EnsureLimits(t)
          /\ WithExit(EnsureLimits(t) # "ok", TRUE)
    /\ UNCHANGED <<orgVars, opts, walkVars, path, batch, ctrVars, current_path, token,
                   last_batch_time, last_callback_time, yielded, events, histVars>>

\* a faulty variant: the failing file is reported but not counted as skipped
ProcessErrorUncounted ==
    /\ pc = "process"
    /\ current_path' = path
    /\ discovered' = discovered + 1
    /\ \E ok \in Outcomes :
          IF ok
          THEN /\ batch' = Append(batch, path)
               /\ processed' = processed + 1
               /\ UNCHANGED <<errors, skipped, errs, faults>>
          ELSE /\ errors' = Append(errors, path)
               /\ faults' = faults + 1
               /\ UNCHANGED <<batch, processed, skipped, errs>>
    /\ pc' = "after"
    /\ UNCHANGED <<orgVars, fileVars, opts, walkVars, path, pending_errors, token, timeVars,
                   yielded, events, visited, handledAtCancel, yieldedAfterCancel>>

\* runner.py 67-86: stat and read the file (path.stat, read_text_hint for a
\* textual file); a record, or a ScanError when either raises OSError
Process ==
    /\ pc = "process"
    /\ current_path' = path
    /\ discovered' = discovered + 1
    /\ \E ok \in Outcomes :
          IF ok
          THEN /\ batch' = Append(batch, path)
               /\ processed' = processed + 1
               /\ UNCHANGED <<errors, skipped, errs, faults>>
          ELSE /\ errors' = Append(errors, path)
               /\ skipped' = skipped + 1
               /\ errs' = errs + 1
               /\ faults' = faults + 1
               /\ UNCHANGED <<batch, processed>>
    /\ pc' = "after"
    /\ UNCHANGED <<orgVars, fileVars, opts, walkVars, path, pending_errors, token, timeVars,
                   yielded, events, visited, handledAtCancel, yieldedAfterCancel>>

\* runner.py 87-91: second guard check, throttled progress, batch size test
AfterFile ==
    /\ pc = "after"
    /\ \E t \in ClockReads, c \in CancelChoices :
          /\ now' = t
          /\ WithExit(EnsureLimits(t) # "ok", TRUE)
          /\ IF EnsureLimits(t) # "ok"
             THEN /\ pc' = EnsureLimits(t)
                  /\ NoCancel
                  /\ UNCHANGED <<last_callback_time, events>>
             ELSE /\ IF ShouldEmitProgress(t)
                     THEN /\ events' = Append(events, ProgressEvent(Snapshot(t), current_path))
                          /\ last_callback_time' = t
                          /\ Cancel(c)
                     ELSE /\ NoCancel
                          /\ UNCHANGED <<last_callback_time, events>>
                  /\ pc' = IF BatchFull(batch) THEN "yield" ELSE "walk"
    /\ UNCHANGED <<orgVars, opts, walkVars, path, batch, errors, pending_errors, ctrVars,
                   current_path, last_batch_time, yielded, visited, faults,
                   yieldedAfterCancel>>

\* runner.py 92-93: a full batch goes to the consumer, which may cancel
YieldBatch ==
    /\ pc = "yield"
    /\ yielded' = Append(yielded, [records |-> batch, errors |-> errors, stats |-> Snapshot(now)])
    /\ WriteBatch(batch)
    /\ \E c \in CancelChoices : Cancel(c)
    /\ pc' = "resume"
    /\ UNCHANGED <<orgVars, opts, walkVars, path, batch, errors, pending_errors, ctrVars,
                   current_path, timeVars, events, visited, faults, yieldedAfterCancel>>

\* runner.py 94-98: fresh lists, the batch clock restarts, throttle sleep
Resume ==
    /\ pc = "resume"
    /\ batch' = <<>>
    /\ errors' = <<>>
    /\ \E t \in ClockReads :
          /\ last_batch_time' = t
          /\ now' = IF opts.throttle_interval > 0
                    THEN Min(t + opts.throttle_interval, MaxTime)
                    ELSE t
    /\ pc' = "walk"
    /\ UNCHANGED <<orgVars, fileVars, opts, walkVars, path, pending_errors, ctrVars, current_path,
                   token, last_callback_time, yielded, events, histVars>>

\* runner.py 99-105: end of walk; the last partial batch, with the trailing
\* errors, goes to the consumer, which may cancel
Final ==
    /\ pc = "final"
    /\ pending_errors' = <<>>
    /\ \E t \in ClockReads, c \in CancelChoices :
          /\ now' = t
          /\ LET errs2 == errors \o pending_errors IN
               /\ errors' = errs2
               /\ IF FinalBatchDue(batch, errs2)
                  THEN /\ yielded' = Append(yielded, [records |-> batch, errors |-> errs2,
                                                      stats |-> Snapshot(t)])
                       /\ WriteBatch(batch)
                       /\ Cancel(c)
                  ELSE /\ UNCHANGED <<yielded, fileVars>>
                       /\ NoCancel
    /\ pc' = "closing"
    /\ UNCHANGED <<orgVars, opts, walkVars, path, batch, ctrVars, current_path,
                   last_batch_time, last_callback_time, events,
                   visited, faults, yieldedAfterCancel>>

\* a faulty variant: the closing event still names the last path visited
ClosingKeepsPath ==
    /\ pc = "closing"
    /\ IF opts.has_callback
       THEN /\ events' = Append(events, ProgressEvent(Snapshot(now), current_path))
            /\ last_callback_time' = now
            /\ \E c \in CancelChoices : Cancel(c)
       ELSE /\ NoCancel
            /\ UNCHANGED <<events, last_callback_time>>
    /\ pc' = "done"
    /\ WithExit(TRUE, FALSE)
    /\ UNCHANGED <<orgVars, opts, walkVars, path, batch, errors, pending_errors,
                   ctrVars, current_path, now, last_batch_time, yielded, visited,
                   faults, yieldedAfterCancel>>

\* runner.py 106-108: the closing progress event, at the clock reading of
\* line 102, and scan_batches returns
Closing ==
    /\ pc = "closing"
    /\ IF opts.has_callback
       THEN /\ current_path' = NoPath
            /\ events' = Append(events, ProgressEvent(Snapshot(now), NoPath))
            /\ last_callback_time' = now
            /\ \E c \in CancelChoices : Cancel(c)
       ELSE /\ NoCancel
            /\ UNCHANGED <<current_path, events, last_callback_time>>
    /\ pc' = "done"
    /\ WithExit(TRUE, FALSE)
    /\ UNCHANGED <<orgVars, opts, walkVars, path, batch, errors, pending_errors,
                   ctrVars, now, last_batch_time, yielded, visited, faults,
                   yieldedAfterCancel>>

\* CancellationToken.cancel() called from another thread, at any moment
CancelByThread ==
    /\ opts.has_token /\ ~token
    /\ pc \notin Raised \cup {"done"}
    /\ Cancel(TRUE)
    /\ UNCHANGED <<orgVars, fileVars, opts, walkVars, pc, path, batch, errors, pending_errors, ctrVars,
                   current_path, timeVars, yielded, events, visited, faults,
                   yieldedAfterCancel>>

ScanNext ==
    \/ WalkRootMissing
    \/ WalkRoot
    \/ WalkPop
    \/ WalkScandirFails
    \/ WalkEntry
    \/ WalkDirEnd
    \/ WalkEnd
    \/ LoopHead
    \/ Process
    \/ AfterFile
    \/ YieldBatch
    \/ Resume
    \/ Final
    \/ Closing
    \/ CancelByThread

ScanSpec == ScanInit /\ [][ScanNext]_vars

FilterSpec == FilterInit /\ [][ScanNext]_vars

\* the roots given to run_scan_to_files: distinct, repeated, nested
RootChoices == { <<"r1", "r2">>, <<"r1", "r1">>, <<"r1", "d1">> }

\* run_scan_to_files: scan_batches consumed into the two files
FilesInit ==
    /\ \E bs \in 1..MaxBatchSize, rs \in RootChoices,
          to \in {NoLimit, MaxTime}, tk \in BOOLEAN :
          opts = [batch_size |-> bs, max_depth |-> NoLimit,
                  overall_timeout |-> NoLimit,
                  per_batch_timeout |-> to,
                  throttle_interval |-> 0,
                  has_token |-> tk, has_callback |-> FALSE,
                  include |-> {}, exclude |-> {},
                  roots |-> rs, to_files |-> TRUE,
                  follow_symlinks |-> FALSE]
    /\ ScanFresh

FilesSpec == FilesInit /\ [][ScanNext]_vars

\* scans that follow symbolic links
LinkInit ==
    /\ \E bs \in 1..MaxBatchSize, md \in {NoLimit, 1}, tk \in BOOLEAN :
          opts = [batch_size |-> bs, max_depth |-> md,
                  overall_timeout |-> NoLimit,
                  per_batch_timeout |-> NoLimit,
                  throttle_interval |-> 0,
                  has_token |-> tk, has_callback |-> FALSE,
                  include |-> {}, exclude |-> {},
                  roots |-> Roots, to_files |-> FALSE,
                  follow_symlinks |-> TRUE]
    /\ ScanFresh

LinkSpec == LinkInit /\ [][ScanNext]_vars

(***************************************************************************)
(* Properties of the scanner.                                              *)
(***************************************************************************)
Range(seq) == {seq[i] : i \in 1..Len(seq)}

RECURSIVE AllRecords(_)
AllRecords(ys) ==
    IF ys = <<>> THEN <<>> ELSE ys[1].records \o AllRecords(Tail(ys))

RECURSIVE AllErrors(_)
AllErrors(ys) ==
    IF ys = <<>> THEN <<>> ELSE ys[1].errors \o AllErrors(Tail(ys))

\* C1: when a scan completes normally, the records and the errors of all
\* yielded batches together are exactly the entries visited (files the
\* walker yielded, roots and directories whose listing failed): as many,
\* the same paths, and no path both recorded and errored.
C1_RecordsPlusErrorsAreVisited ==
    pc = "done" =>
        /\ Len(AllRecords(yielded)) + Len(AllErrors(yielded)) = Len(visited)
        /\ Range(AllRecords(yielded)) \cap Range(AllErrors(yielded)) = {}
        /\ Range(AllRecords(yielded)) \cup Range(AllErrors(yielded)) = Range(visited)

\* C1 witness: a completed scan of several batches with a failing file and
\* a failing directory among the visited entries.
C1_Witness ==
    /\ pc = "done"
    /\ Len(yielded) >= 2
    /\ Range(AllErrors(yielded)) \cap Files # {}
    /\ Range(AllErrors(yielded)) \cap Dirs # {}
    /\ Len(AllRecords(yielded)) >= 2

\* C2: no yielded batch holds more than batch_size records, and every
\* yielded batch but the last holds exactly batch_size.
C2_BatchesAreExactlyN ==
    \A i \in 1..Len(yielded) :
        /\ Len(yielded[i].records) <= opts.batch_size
        /\ (i < Len(yielded) => Len(yielded[i].records) = opts.batch_size)

\* C2 witness: batch_size 2, a full batch followed by a shorter last one.
C2_Witness ==
    /\ pc = "done"
    /\ opts.batch_size = 2
    /\ Len(yielded) = 2
    /\ Len(yielded[1].records) = 2
    /\ Len(yielded[2].records) = 1

\* C3: once the token is set with k files handled, at most one further
\* file is handled; and a file the walker yields after the token was set
\* makes the next guard check raise the cancellation (the scan does not
\* complete normally).
C3_CancelStopsWithinOneFile ==
    /\ (token => discovered <= handledAtCancel + 1)
    /\ (yieldedAfterCancel => pc \in {"head", "cancelled"})

\* C3 witness: the token was set after at least one file, one more file
\* was handled, and the scan raised the cancellation.
C3_Witness ==
    /\ pc = "cancelled"
    /\ handledAtCancel >= 1
    /\ discovered = handledAtCancel + 1

(***************************************************************************)
(* The organizer: file operations, journal records and journal lines.      *)
(***************************************************************************)
Exists(f, p) == p \in DOMAIN f

\* shutil.move of a file: os.rename, which replaces an existing destination
\* and does nothing when source and destination are the same file
Move(f, s, d) ==
    IF s = d
    THEN f
    ELSE [p \in (DOMAIN f \ {s}) \cup {d} |-> IF p = d THEN f[s] ELSE f[p]]

\* shutil.copy2 of a file onto another path (replacing what is there)
Copy(f, s, d) == [p \in DOMAIN f \cup {d} |-> IF p = d THEN f[s] ELSE f[p]]

\* f"{stem}__{suffix}{ext}" for counter 0, f"{stem}__{suffix}_{counter}{ext}"
VersionCandidate(dst_dir, name, suffix, counter) ==
    FilePath(dst_dir, Append(name, [h |-> suffix, c |-> counter]))

RECURSIVE FirstFree(_, _, _, _, _)
FirstFree(f, dst_dir, name, suffix, counter) ==
    IF Exists(f, VersionCandidate(dst_dir, name, suffix, counter))
    THEN FirstFree(f, dst_dir, name, suffix, counter + 1)
    ELSE VersionCandidate(dst_dir, name, suffix, counter)

\* a faulty variant: the hashed name is taken without asking whether it is free
VersionedNameNoLoop(f, dst_dir, name, suffix) ==
    VersionCandidate(dst_dir, name, suffix, 0)

\* organize._versioned_name
VersionedName(f, dst_dir, name, suffix) == FirstFree(f, dst_dir, name, suffix, 0)

\* utils.JournalRecord
JournalRecord(code, source, destination, details) ==
    [code |-> code, source |-> source, destination |-> destination,
     details |-> details]

\* JournalRecord.to_json: one journal line, a JSON object with the keys
\* code and src, the key dst when there is a destination, and the details
ToJson(rec) ==
    [kind |-> "object", code |-> rec.code, src |-> rec.source,
     dst |-> rec.destination, extra |-> rec.details]

\* a line that is no JSON at all (a truncated record, free text, an empty
\* line), a line that is valid JSON but no object (42, null, "x"), and a
\* MOVE record that has lost its dst key
MalformedLine(kind) ==
    IF kind = "nodst"
    THEN [kind |-> "object", code |-> "MOVE", src |-> FilePath("a", <<>>),
          dst |-> Absent, extra |-> "-"]
    ELSE [kind |-> kind, code |-> "-", src |-> Absent, dst |-> Absent, extra |-> "-"]

MalformedKinds == {"garbage", "scalar", "nodst"}

RECURSIVE ToLines(_)
ToLines(recs) ==
    IF recs = <<>> THEN <<>> ELSE <<ToJson(recs[1])>> \o ToLines(Tail(recs))

\* the scanner at rest, as OrgSpec leaves it
ScanOff ==
    /\ opts = [batch_size |-> 1, max_depth |-> NoLimit, overall_timeout |-> NoLimit,
               per_batch_timeout |-> NoLimit, throttle_interval |-> 0,
               has_token |-> FALSE, has_callback |-> FALSE,
               include |-> {}, exclude |-> {}, roots |-> Roots, to_files |-> FALSE,
                  follow_symlinks |-> FALSE]
    /\ writer = JsonArrayWriter
    /\ safe_writer = SafeMapWriter
    /\ rootIdx = 1
    /\ stack = <<>>
    /\ cur = NoCur
    /\ pos = 1
    /\ pc = "off"
    /\ path = NoPath
    /\ batch = <<>>
    /\ errors = <<>>
    /\ pending_errors = <<>>
    /\ processed = 0
    /\ discovered = 0
    /\ skipped = 0
    /\ errs = 0
    /\ current_path = NoPath
    /\ token = FALSE
    /\ now = 0
    /\ last_batch_time = 0
    /\ last_callback_time = 0
    /\ yielded = <<>>
    /\ events = <<>>
    /\ visited = <<>>
    /\ faults = 0
    /\ handledAtCancel = -1
    /\ yieldedAfterCancel = FALSE

OrgInit ==
    /\ ScanOff
    /\ fs \in {OutsideFiles, WithTargetFile}
    /\ journal = <<>>
    /\ journal_exists = FALSE
    /\ opc = "idle"
    /\ \E m \in Modes, c \in Conflicts : cfg = [mode |-> m, conflict |-> c]
    /\ journal_entries = <<>>
    /\ lastDoc = NoDoc
    /\ rb_lines = <<>>
    /\ rb_idx = 0
    /\ rb_result = "none"
    /\ fs0 = fs
    /\ fsBeforeRb = fs
    /\ moved = <<>>
    /\ orgOutcome = "none"
    /\ rbSince = 0
    /\ nops = 0
    /\ outside = FALSE

rbVars == <<rb_lines, rb_idx, rb_result, fsBeforeRb, rbSince>>

\* the behaviour may attempt one more source path, damage one more line or
\* delete one more file
Room == nops < MaxOps

(***************************************************************************)
(* organize_projects.                                                      *)
(***************************************************************************)
\* organize.py 113-121: a run starts; every run of one behaviour is given
\* the same OrganizeConfig, the one chosen at the start
OrgStart ==
    /\ opc = "idle" /\ Room
    /\ UNCHANGED cfg
    /\ opc' = "organizing"
    /\ journal_entries' = <<>>
    /\ lastDoc' = NoDoc
    /\ fs0' = fs
    /\ moved' = <<>>
    /\ orgOutcome' = "running"
    /\ rbSince' = 0
    /\ outside' = FALSE
    /\ UNCHANGED <<scanVars, fs, journal, journal_exists, rb_lines, rb_idx,
                   rb_result, fsBeforeRb, nops>>

\* organize.py 141: the plain destination of a source in a project
PlainDst(label, src) == FilePath(TargetDir(label), src.name)

\* a faulty variant: the skip policy is never applied
SkipCaseNever(label, src) == FALSE

\* organize.py 142-152: the skip policy applies
SkipCase(label, src) ==
    Exists(fs, PlainDst(label, src)) /\ cfg.conflict = "skip"

\* a faulty variant: the version policy is not applied
DestinationPlain(label, src) == PlainDst(label, src)

\* organize.py 141-155: where the source goes
Destination(label, src) ==
    IF Exists(fs, PlainDst(label, src)) /\ cfg.conflict = "version"
    THEN VersionedName(fs, TargetDir(label), src.name, Hash7(fs[src]))
    ELSE PlainDst(label, src)

\* the paths a project's doc_ids may name: files that exist now and the
\* places where files were when the model started
DocChoices == DOMAIN fs \cup DOMAIN WithTargetFile

\* organize.py 130-186: one source path of one project, whole loop body
OrgFile ==
    /\ opc = "organizing" /\ Room
    /\ \E label \in Labels, src \in DocChoices :
          /\ lastDoc' = [label |-> label, src |-> src]
          /\ IF ~Exists(fs, src)
             THEN /\ journal_entries' =
                        Append(journal_entries, JournalRecord("MISS", src, Absent, "-"))
                  /\ UNCHANGED <<fs, moved>>
             ELSE IF SkipCase(label, src)
             THEN /\ journal_entries' =
                        Append(journal_entries, JournalRecord("SKIP", src, Absent, "exists"))
                  /\ UNCHANGED <<fs, moved>>
             ELSE LET dst == Destination(label, src) IN
                  IF cfg.mode = "move"
                  THEN /\ fs' = Move(fs, src, dst)
                       /\ journal_entries' =
                             Append(journal_entries, JournalRecord("MOVE", src, dst, "-"))
                       /\ moved' = Append(moved, [src |-> src, dst |-> dst,
                                                  content |-> fs[src],
                                                  replaced |-> Exists(fs, dst) /\ src # dst])
                  ELSE IF src = dst
                  THEN \* shutil.copy2 raises SameFileError, a shutil.Error
                       /\ journal_entries' =
                             Append(journal_entries,
                                    JournalRecord("ERROR", src, dst, "same file"))
                       /\ UNCHANGED <<fs, moved>>
                  ELSE /\ fs' = Copy(fs, src, dst)
                       /\ journal_entries' =
                             Append(journal_entries, JournalRecord("COPY", src, dst, "-"))
                       /\ moved' = Append(moved, [src |-> src, dst |-> dst,
                                                  content |-> fs[src],
                                                  replaced |-> Exists(fs, dst)])
    /\ nops' = nops + 1
    /\ UNCHANGED <<scanVars, journal, journal_exists, opc, cfg, rbVars, fs0,
                   orgOutcome>>
    /\ UNCHANGED outside

\* organize.py 156-177: the transfer raises an OSError that is no
\* shutil.Error (permission denied, disk full, ...): the except clause does
\* not catch it, organize_projects ends by that exception and line 187 is
\* never reached
OrgFileRaises ==
    /\ opc = "organizing" /\ Room
    /\ \E label \in Labels, src \in DocChoices :
          /\ Exists(fs, src)
          /\ ~SkipCase(label, src)
          /\ lastDoc' = [label |-> label, src |-> src]
    /\ opc' = "idle"
    /\ orgOutcome' = "raised"
    /\ nops' = nops + 1
    /\ UNCHANGED <<scanVars, fs, journal, journal_exists, cfg, journal_entries,
                   rbVars, fs0, moved>>
    /\ UNCHANGED outside

\* a faulty variant: the journal file is opened for writing, not appending
AppendJournalOverwrites(lines, recs) == ToLines(recs)

\* utils.append_journal, organize.py 187: the run's records reach the file
AppendJournal(lines, recs) == lines \o ToLines(recs)

OrgFinish ==
    /\ opc = "organizing"
    /\ journal' = AppendJournal(journal, journal_entries)
    /\ journal_exists' = TRUE
    /\ opc' = "idle"
    /\ orgOutcome' = "returned"
    /\ UNCHANGED <<scanVars, fs, cfg, journal_entries, lastDoc, rbVars,
                   fs0, moved, nops>>
    /\ UNCHANGED outside

(***************************************************************************)
(* rollback.                                                               *)
(***************************************************************************)
\* rollbacks made in a row since the last organize run or outside change of
\* the files: none, one, or two and more
Twice(n) == IF n = 0 THEN 1 ELSE 2

\* a faulty variant: the lines are taken in the order of the file
NotReversed(lines) == lines

\* organize.py 196: reversed(lines)
Reversed(lines) == [i \in 1..Len(lines) |-> lines[Len(lines) - i + 1]]

\* organize.py 193-196: no journal, nothing to do; else read all lines and
\* take them last line first
RbStart ==
    /\ opc = "idle"
    /\ fsBeforeRb' = fs
    /\ IF ~journal_exists
       THEN /\ rb_result' = "returned"
            /\ rbSince' = Twice(rbSince)
            /\ UNCHANGED <<opc, rb_lines, rb_idx>>
       ELSE /\ opc' = "rollback"
            /\ rb_lines' = Reversed(journal)
            /\ rb_idx' = 1
            /\ rb_result' = "running"
            /\ UNCHANGED rbSince
    /\ UNCHANGED <<scanVars, fs, journal, journal_exists, cfg, journal_entries,
                   lastDoc, fs0, moved, orgOutcome, nops>>
    /\ UNCHANGED outside

\* organize.py 197-208: what becomes of a line: "skip" (continue), "raise"
\* (an exception leaves rollback) or "restore".  Without a dst key the
\* destination is Path(""), the working directory, which exists: with the
\* paths of the journal lying below the working directory,
\* shutil.move(".", src) raises shutil.Error and no file is touched.
LineFate(line) ==
    IF line.kind = "garbage" THEN "skip"            \* json.JSONDecodeError
    ELSE IF line.kind # "object" THEN "raise"       \* data.get: AttributeError
    ELSE IF line.code \notin {"MOVE", "COPY"} THEN "skip"
    ELSE IF line.src = Absent THEN "raise"          \* data["src"]: KeyError
    ELSE IF line.dst = Absent THEN "raise"          \* shutil.move(".", src)
    ELSE "restore"

\* organize.py 203-208: the destination is moved back when it exists
Restore(f, line) ==
    IF ~Exists(f, line.dst) THEN f ELSE Move(f, line.dst, line.src)

\* organize.py 196-208: the loop body for one line
RbStep ==
    /\ opc = "rollback" /\ rb_idx <= Len(rb_lines)
    /\ LET line == rb_lines[rb_idx] IN
         IF LineFate(line) = "raise"
         THEN /\ opc' = "idle"
              /\ rb_result' = "raised"
              /\ rbSince' = Twice(rbSince)
              /\ rb_lines' = <<>>
              /\ rb_idx' = 0
              /\ UNCHANGED fs
         ELSE /\ fs' = IF LineFate(line) = "restore" THEN Restore(fs, line) ELSE fs
              /\ rb_idx' = rb_idx + 1
              /\ UNCHANGED <<opc, rb_result, rbSince, rb_lines>>
    /\ UNCHANGED <<scanVars, journal, journal_exists, cfg, journal_entries,
                   lastDoc, fsBeforeRb, fs0, moved, orgOutcome, nops>>
    /\ UNCHANGED outside

\* the loop is over: rollback returns
RbEnd ==
    /\ opc = "rollback" /\ rb_idx > Len(rb_lines)
    /\ opc' = "idle"
    /\ rb_result' = "returned"
    /\ rbSince' = Twice(rbSince)
    /\ rb_lines' = <<>>
    /\ rb_idx' = 0
    /\ UNCHANGED <<scanVars, fs, journal, journal_exists, cfg, journal_entries,
                   lastDoc, fsBeforeRb, fs0, moved, orgOutcome, nops>>
    /\ UNCHANGED outside

\* the journal file gets a malformed line from outside the organizer (a
\* crash in the middle of a write, an editor), at any place
JournalDamage ==
    /\ opc = "idle" /\ journal_exists /\ Room
    /\ \E kind \in MalformedKinds, i \in 0..Len(journal) :
          journal' = SubSeq(journal, 1, i) \o <<MalformedLine(kind)>>
                     \o SubSeq(journal, i + 1, Len(journal))
    /\ nops' = nops + 1
    /\ UNCHANGED <<scanVars, fs, journal_exists, opc, cfg, journal_entries,
                   lastDoc, rb_lines, rb_idx, rb_result, fsBeforeRb,
                   fs0, moved, orgOutcome, rbSince>>
    /\ UNCHANGED outside

\* between two calls the owner of an original deletes it (a file outside
\* the target tree); the organizer and rollback see the file system as it
\* then is (Path.exists, organize.py 131 and 205)
SourceRemoved ==
    /\ opc = "idle" /\ Room
    /\ \E p \in DOMAIN fs :
          /\ p.dir \notin {TargetDir(label) : label \in Labels}
          /\ fs' = [q \in DOMAIN fs \ {p} |-> fs[q]]
    /\ rbSince' = 0
    /\ outside' = TRUE
    /\ nops' = nops + 1
    /\ UNCHANGED <<scanVars, journal, journal_exists, opc, cfg, journal_entries,
                   lastDoc, rb_lines, rb_idx, rb_result, fsBeforeRb,
                   fs0, moved, orgOutcome>>

OrgNext ==
    \/ OrgStart
    \/ OrgFile
    \/ OrgFileRaises
    \/ OrgFinish
    \/ RbStart
    \/ RbStep
    \/ RbEnd
    \/ JournalDamage
    \/ SourceRemoved

OrgSpec == OrgInit /\ [][OrgNext]_vars

(***************************************************************************)
(* Properties of the organizer and of rollback.                            *)
(***************************************************************************)
WellFormed(lines) ==
    \A i \in 1..Len(lines) :
        /\ lines[i].kind = "object"
        /\ lines[i].code \in {"MOVE", "COPY"} => lines[i].dst # Absent

\* the journal file holds the records of the latest run and nothing else
FreshJournal == journal_exists /\ journal = ToLines(journal_entries)

\* C4: after an organize run in move mode that returned, followed by one
\* rollback of the journal it wrote (nobody else touching the files), every
\* file the run moved is again at its source path with the content it had
\* there before the run.
C4_RollbackRestoresMovedFiles ==
    ( /\ opc = "idle"
      /\ cfg.mode = "move"
      /\ orgOutcome = "returned"
      /\ FreshJournal /\ ~outside
      /\ rbSince = 1
      /\ rb_result = "returned" )
    => \A i \in 1..Len(moved) :
          Exists(fs0, moved[i].src) =>
              /\ Exists(fs, moved[i].src)
              /\ fs[moved[i].src] = fs0[moved[i].src]

\* C5: a second rollback right after a first one, over a journal written
\* by organize runs alone, returns without error and leaves every file
\* where it was and as it was.
C5_SecondRollbackIsNoOp ==
    (opc = "idle" /\ rbSince = 2 /\ WellFormed(journal))
    => (rb_result = "returned" /\ fs = fsBeforeRb)

\* a transfer of the current run whose destination was not picked up again
\* as the source of a later transfer of the run
Settled(i) == \A k \in (i + 1)..Len(moved) : moved[k].src # moved[i].dst

\* C6: under conflict = version, two sources of different content (same
\* base name, same project and bucket) that a run transferred lie at two
\* distinct destinations, each holding its source's content unchanged.
C6_VersionKeepsBothFiles ==
    (cfg.conflict = "version" /\ opc = "organizing")
    => \A i, j \in 1..Len(moved) :
          ( /\ i < j
            /\ moved[i].content # moved[j].content
            /\ Settled(i) /\ Settled(j) )
          => /\ moved[i].dst # moved[j].dst
             /\ Exists(fs, moved[i].dst) /\ fs[moved[i].dst] = moved[i].content
             /\ Exists(fs, moved[j].dst) /\ fs[moved[j].dst] = moved[j].content

\* C6 witness: a version run has transferred A and B, both named x.txt
C6_Witness ==
    /\ cfg.conflict = "version" /\ opc = "organizing"
    /\ Len(moved) = 2
    /\ moved[1].content = "A" /\ moved[2].content = "B"
    /\ Settled(1)
    /\ moved[2].dst.name # <<>>

\* C7: under conflict = version every transferred file is named by its
\* source stem, "__" and the 7-character hash of its content (with a
\* counter at most), whether or not the plain name was free.
C7_VersionAlwaysSuffixesHash ==
    cfg.conflict = "version"
    => \A i \in 1..Len(moved) :
          LET n == moved[i].dst.name IN
             /\ Len(n) = Len(moved[i].src.name) + 1
             /\ SubSeq(n, 1, Len(n) - 1) = moved[i].src.name
             /\ n[Len(n)].h = Hash7(moved[i].content)

\* C8: under conflict = skip, handling a source whose plain destination
\* exists changes no file (destination bytes and source stay) and adds a
\* SKIP record for that source, and nothing else, to the run's records.
C8_SkipTouchesNothing ==
    [][ ( /\ opc = "organizing"
          /\ nops' = nops + 1
          /\ cfg.conflict = "skip"
          /\ Exists(fs, lastDoc'.src)
          /\ Exists(fs, PlainDst(lastDoc'.label, lastDoc'.src)) )
        => ( /\ fs' = fs
             /\ opc' = "organizing"
             /\ journal_entries' =
                   Append(journal_entries,
                          JournalRecord("SKIP", lastDoc'.src, Absent, "exists")) )
      ]_vars

\* C8 witness: a skip run has just recorded a SKIP for a/x.txt, which is
\* still in place beside the untouched destination
C8_Witness ==
    /\ cfg.conflict = "skip" /\ opc = "organizing"
    /\ journal_entries # <<>>
    /\ journal_entries[Len(journal_entries)].code = "SKIP"
    /\ lastDoc.src = FilePath("a", <<>>)
    /\ Exists(fs, FilePath("a", <<>>))
    /\ Exists(fs, FilePath("Tp", <<>>))

\* C9: rollback never ends by an exception, whatever malformed lines the
\* journal holds and wherever they stand.
C9_RollbackNeverRaises == rb_result # "raised"

\* C10: while organize_projects runs, the record of every file handled
\* before the current one is already in the journal file.
C10_JournalFlushedPerFile ==
    opc = "organizing"
    => \A i \in 1..(Len(journal_entries) - 1) :
          \E k \in 1..Len(journal) : journal[k] = ToJson(journal_entries[i])

\* C4 holds when nothing is ever replaced: policies version and skip
C4_HoldsWithoutOverwrite ==
    cfg.conflict # "overwrite" => C4_RollbackRestoresMovedFiles

\* C11: organize_projects never ends by an exception raised for a single
\* file: a missing source gives a MISS record, a failing move or copy an
\* ERROR record, the remaining paths are attempted and the journal written.
C11_OrganizeNeverAborts == orgOutcome # "raised"

\* the file system without the file at p
Without(f, p) == [q \in DOMAIN f \ {p} |-> f[q]]

\* C12: when rollback handles a COPY record whose destination exists, the
\* destination copy is deleted and nothing else changes: the file at the
\* source path, or its absence, stays as it is.
C12_CopyRollbackDeletesTheCopy ==
    [][ ( /\ opc = "rollback" /\ rb_idx <= Len(rb_lines)
          /\ rb_lines[rb_idx].kind = "object"
          /\ rb_lines[rb_idx].code = "COPY"
          /\ rb_lines[rb_idx].dst # rb_lines[rb_idx].src
          /\ Exists(fs, rb_lines[rb_idx].dst) )
        => fs' = Without(fs, rb_lines[rb_idx].dst)
      ]_vars

(***************************************************************************)
(* More properties of the scanner.                                         *)
(***************************************************************************)
\* a step in which scan_batches consults the guard (runner.py 66 and 88)
\* at a clock reading at which the overall timeout has been reached
GuardSeesOverallTimeout ==
    /\ pc \in {"head", "after"}
    /\ pc' # pc
    /\ opts.overall_timeout # NoLimit
    /\ now' - start_time >= opts.overall_timeout

\* once an exception has left scan_batches nothing is yielded or handled
StoppedForGood ==
    pc \in Raised =>
        /\ pc' = pc
        /\ yielded' = yielded /\ batch' = batch
        /\ discovered' = discovered /\ processed' = processed

\* C13 as stated: every guard check made when the overall timeout has been
\* reached raises ScanTimeoutError.
C13_GuardAlwaysRaisesTimeout ==
    [][GuardSeesOverallTimeout => pc' = "timeout"]_vars

\* C13, amended: a guard check made when the overall timeout has been
\* reached raises ScanTimeoutError unless the token is set, in which case it
\* raises ScanCancelledError; either way no further batch is yielded and no
\* further file handled, and with overall_timeout = 0 no file is ever
\* handled and no record produced.
C13_GuardRaisesAtOverallTimeout ==
    [][ /\ GuardSeesOverallTimeout =>
              pc' = IF opts.has_token /\ token THEN "cancelled" ELSE "timeout"
        /\ StoppedForGood
        /\ opts.overall_timeout = 0 =>
              (discovered' = 0 /\ processed' = 0 /\ batch' = <<>>
               /\ AllRecords(yielded') = <<>> /\ pc' # "process")
      ]_vars

\* C13 witness: the overall timeout was raised after a batch had gone out
C13_Witness ==
    /\ pc = "timeout"
    /\ opts.overall_timeout = MaxTime
    /\ Len(yielded) >= 1
    /\ discovered >= 2

\* a root found missing: the walker goes to the next root without having
\* put this one on its stack (walker.py 31-33)
MissingRootFound ==
    pc = "walk" /\ Idle /\ rootIdx' = rootIdx + 1 /\ stack' = <<>>

\* C14: a configured root that does not exist stops the scan with a
\* failure of its own; the scan does not go on with the other roots.
C14_MissingRootIsFatal ==
    [][MissingRootFound => pc' \notin {"walk", "final", "done"}]_vars

\* the paths of seq that are files
FilesOf(seq) == SelectSeq(seq, LAMBDA p : p \in Files)

\* C15: in a scan that completes normally every failure (of stat or of the
\* content read of a file, of a root or a directory listing) has given
\* exactly one ScanError and is counted as skipped; a failing file has no
\* FileRecord; every file the walker yielded is counted in discovered, and
\* every file that did not fail is recorded, once.
C15_UnreadableFileIsOneError ==
    pc = "done" =>
        LET recs == AllRecords(yielded)
            errs_ == AllErrors(yielded)
        IN  /\ Len(errs_) = faults
            /\ skipped = faults /\ errs = faults
            /\ discovered = Len(FilesOf(visited))
            /\ processed = Len(recs)
            /\ Len(FilesOf(errs_)) = discovered - processed
            /\ Cardinality(Range(recs)) = Len(recs)
            /\ Cardinality(Range(errs_)) = Len(errs_)
            /\ Range(recs) = Range(FilesOf(visited)) \ Range(errs_)

\* C15 witness: three files handled, one of them failing: 2 records,
\* 1 error for a file, discovered = 3
C15_Witness ==
    /\ pc = "done"
    /\ discovered = 3
    /\ Len(AllRecords(yielded)) = 2
    /\ FilesOf(AllErrors(yielded)) = <<"f2">>

\* C16: with throttle_interval > 0 every invocation of the progress
\* callback comes at least throttle_interval after the previous one (and
\* after the start of the scan); with throttle_interval = 0 every file
\* handled, the scan going on after it, gives a progress event.
C16_ProgressIsThrottled ==
    [][ /\ (events' # events /\ opts.throttle_interval > 0)
              => now' - last_callback_time >= opts.throttle_interval
        /\ ( /\ opts.throttle_interval = 0 /\ opts.has_callback
             /\ pc = "after" /\ pc' \in {"walk", "yield"} )
              => Len(events') = Len(events) + 1
      ]_vars

\* the positions of the progress events that carry no current path
NullEvents == {i \in 1..Len(events) : events[i].current_path = NoPath}

\* C17: when a scan with a progress callback completes normally, the last
\* partial batch and the trailing errors have been yielded before the
\* closing event, and that event, with current_path = null, is the last
\* event and the only one without a path; before completion, and in a scan
\* that ends by cancellation or timeout, no event is without a path.
C17_ClosingEventIsLastAndOnly ==
    /\ pc # "done" => NullEvents = {}
    /\ (pc = "done" /\ opts.has_callback) => NullEvents = {Len(events)}
    /\ pc \in {"closing", "done"} =>
          /\ pending_errors = <<>>
          /\ Len(AllRecords(yielded)) + Len(AllErrors(yielded)) = Len(visited)

\* C17 witness: a completed scan with a callback whose last batch was a
\* partial one carrying an error, several events before the closing one
C17_Witness ==
    /\ pc = "done" /\ opts.has_callback
    /\ opts.batch_size = 2
    /\ Len(yielded) >= 2
    /\ Len(yielded[Len(yielded)].records) = 1
    /\ yielded[Len(yielded)].errors # <<>>
    /\ Len(events) >= 3

\* C20: the scan results held and not yet handed over (records of the
\* current batch, errors gathered since the previous batch) are never more
\* than batch_size.
C20_HeldResultsWithinOneBatch ==
    pc # "resume" =>
        Len(batch) + Len(errors) + Len(pending_errors) <= opts.batch_size

(***************************************************************************)
(* More properties of the organizer and of rollback.                       *)
(***************************************************************************)
\* C18: every source path a run attempts adds exactly one record, for that
\* path, at the end of the run's records; on normal return these records
\* are appended to the journal file in that order, after the lines the
\* file already held, which stay as they were.
C18_OneRecordPerAttemptInOrder ==
    [][ /\ (opc = "organizing" /\ nops' = nops + 1 /\ opc' = "organizing")
              => /\ Len(journal_entries') = Len(journal_entries) + 1
                 /\ SubSeq(journal_entries', 1, Len(journal_entries)) = journal_entries
                 /\ journal_entries'[Len(journal_entries')].source = lastDoc'.src
        /\ (opc = "organizing" /\ orgOutcome' = "returned")
              => /\ Len(journal') = Len(journal) + Len(journal_entries)
                 /\ SubSeq(journal', 1, Len(journal)) = journal
                 /\ \A i \in 1..Len(journal_entries) :
                       journal'[Len(journal) + i] = ToJson(journal_entries[i])
      ]_vars

\* C18 witness: a second run has returned; the journal holds the lines of
\* the first run followed by the records of the second
C18_Witness ==
    /\ opc = "idle" /\ orgOutcome = "returned"
    /\ Len(journal_entries) >= 1
    /\ Len(journal) > Len(journal_entries)
    /\ journal[1].kind = "object"
    /\ SubSeq(journal, Len(journal) - Len(journal_entries) + 1, Len(journal))
          = ToLines(journal_entries)

Max(a, b) == IF a >= b THEN a ELSE b

RECURSIVE MaxOver(_, _)
\* the directory levels of the deepest subtree among the entries of seq
\* that are directories
RECURSIVE Height(_)
MaxOver(seq, i) ==
    IF i > Len(seq) THEN 0
    ELSE Max(IF seq[i] \in Dirs THEN Height(seq[i]) ELSE 0, MaxOver(seq, i + 1))

\* the nesting depth of the tree under d, d itself counted as one level
Height(d) == 1 + MaxOver(Listing(d), 1)

\* C21: the stack of pending directories never holds more entries than
\* the tree under the root being walked has levels of nesting.
C21_StackWithinNestingDepth ==
    (rootIdx > 1 /\ stack # <<>>) => Len(stack) <= Height(Roots[rootIdx - 1])

(***************************************************************************)
(* The walker's filters, stated on the tree itself.                        *)
(***************************************************************************)
Parent(e) == CHOOSE d \in Dirs : \E i \in 1..Len(Listing(d)) : Listing(d)[i] = e

IsRoot(d) == \E i \in 1..Len(Roots) : Roots[i] = d

RECURSIVE RelOf(_)
RelOf(e) ==
    IF IsRoot(Parent(e))
    THEN Name(e)
    ELSE RelOf(Parent(e)) \o <<"/">> \o Name(e)

RECURSIVE DepthOf(_)
DepthOf(d) == IF IsRoot(d) THEN 0 ELSE 1 + DepthOf(Parent(d))

\* the directories between the root and e, the root left out
RECURSIVE Between(_)
Between(e) ==
    IF IsRoot(Parent(e)) THEN {} ELSE {Parent(e)} \cup Between(Parent(e))

MatchesExclude(e) ==
    \E pattern \in opts.exclude :
        \/ FnMatchCase(RelOf(e), pattern)
        \/ e \in Dirs /\ FnMatchCase(RelOf(e) \o <<"/">>, pattern)

PassesFilters(f) ==
    /\ ~MatchesExclude(f)
    /\ \A d \in Between(f) : ~MatchesExclude(d)
    /\ opts.include = {} \/ \E pattern \in opts.include : FnMatchCase(RelOf(f), pattern)
    /\ opts.max_depth = NoLimit \/ DepthOf(Parent(f)) <= opts.max_depth

\* C22: a scan that ran to its end without an I/O failure has yielded a
\* file exactly when neither the file nor a directory above it is excluded,
\* the file matches an include pattern when there are any, and its
\* directory lies at most max_depth levels below the root.
C22_YieldedIffPassesFilters ==
    (pc = "done" /\ faults = 0) => Range(visited) = {f \in Files : PassesFilters(f)}

C22_Witness ==
    /\ pc = "done" /\ faults = 0
    /\ opts.exclude = {<<"d", "1", "/">>}
    /\ opts.include = {<<"f", "*">>}
    /\ opts.max_depth = 1
    /\ Range(visited) = {"f1", "f2", "f4"}

(***************************************************************************)
(* run_scan_to_files.                                                      *)
(***************************************************************************)
PathsOf(entries) == {entries[i].path : i \in 1..Len(entries)}

\* C23: no safe_id is written to the safe map twice, and once the files
\* are closed the paths of the safe map are the paths of the scan output.
C23_SafeMapWriteOncePerPath ==
    /\ \A i, j \in 1..Len(safe_writer.entries) :
          safe_writer.entries[i].safe_id = safe_writer.entries[j].safe_id => i = j
    /\ safe_writer.closed => PathsOf(safe_writer.entries) = Range(writer.items)

\* C24: a step in which scan_batches raises leaves the batches yielded so
\* far as they were, and leaves both files of run_scan_to_files closed and
\* holding exactly the records of those batches.
C24_FailureLeavesFilesWhole ==
    [][(pc' \in Raised /\ pc \notin Raised) =>
          /\ yielded' = yielded
          /\ opts.to_files =>
                /\ writer'.closed /\ safe_writer'.closed
                /\ writer'.items = AllRecords(yielded)
                /\ [i \in 1..Len(safe_writer'.entries) |-> safe_writer'.entries[i].path]
                      = AllRecords(yielded)]_vars

C24_Witness ==
    /\ pc \in Raised /\ opts.to_files
    /\ writer.closed /\ safe_writer.closed
    /\ Len(writer.items) = 2
    /\ batch # <<>>

\* C25: over the progress events of one scan the processed count never
\* goes down, so the last event carries the largest; every event has
\* discovered >= processed and an eta that is absent or not negative.
C25_ProgressCountsAreSound ==
    /\ \A i, j \in 1..Len(events) :
          i <= j => events[i].stats.processed <= events[j].stats.processed
    /\ \A i \in 1..Len(events) :
          /\ events[i].stats.discovered >= events[i].stats.processed
          /\ events[i].stats.eta_seconds = <<>> \/ events[i].stats.eta_seconds[1] >= 0

C25_Witness ==
    /\ pc = "done"
    /\ Len(events) >= 3
    /\ events[Len(events)].stats.processed = 3
    /\ \E i \in 1..Len(events) : events[i].stats.eta_seconds = <<>>
    /\ \E i \in 1..Len(events) :
          events[i].stats.eta_seconds # <<>> /\ events[i].stats.eta_seconds[1] > 0

\* the guard check that follows a file (runner.py 87-88), at a clock
\* reading at which the time since the last batch has reached
\* per_batch_timeout
GuardSeesBatchTimeout ==
    /\ pc = "after"
    /\ pc' # pc
    /\ opts.per_batch_timeout # NoLimit
    /\ now' - last_batch_time >= opts.per_batch_timeout

\* the batch clock restarts when the generator resumes after a yield
BatchClockRestarts ==
    (pc = "resume" /\ pc' # pc) => last_batch_time' >= now

\* C26 as stated: when the time since the last batch has reached
\* per_batch_timeout at the guard check following a file, that check raises
\* ScanTimeoutError and no batch holding the file is yielded; the batch
\* clock restarts after every emitted batch.
C26_BatchTimeoutAlwaysRaisesTimeout ==
    [][ /\ GuardSeesBatchTimeout => (pc' = "timeout" /\ yielded' = yielded)
        /\ StoppedForGood
        /\ BatchClockRestarts
      ]_vars

\* C26, amended: that guard check raises ScanTimeoutError unless the token
\* is set, in which case it raises ScanCancelledError; either way no batch
\* holding the file is yielded, and the batch clock restarts after every
\* emitted batch.
C26_BatchTimeoutRaisesAfterFile ==
    [][ /\ GuardSeesBatchTimeout =>
              /\ pc' = IF opts.has_token /\ token THEN "cancelled" ELSE "timeout"
              /\ yielded' = yielded
        /\ StoppedForGood
        /\ BatchClockRestarts
      ]_vars

\* C26 witness: the batch timeout was raised on the file following an
\* emitted batch, with that file's record still in the batch
C26_Witness ==
    /\ pc = "timeout"
    /\ opts.per_batch_timeout = MaxTime
    /\ Len(yielded) >= 1
    /\ batch # <<>>
    /\ now - last_batch_time >= opts.per_batch_timeout

\* C27 as stated: when scan_batches has raised, fewer than batch_size
\* records are held undelivered.
C27_LostRecordsBelowBatchSize ==
    pc \in Raised => Len(batch) <= opts.batch_size - 1

\* C27, amended: when scan_batches has raised, at most batch_size records
\* are held undelivered.
C27_LostRecordsWithinBatchSize ==
    pc \in Raised => Len(batch) <= opts.batch_size

\* C27 witness: the guard raised on a batch that had just become full
C27_Witness ==
    /\ pc \in Raised
    /\ opts.batch_size = 2
    /\ Len(batch) = 2
    /\ Len(yielded) = 1

\* C28: under the version policy no transfer of any run lands on a path
\* that existed just before it.
C28_VersionNeverReplaces ==
    cfg.conflict = "version" =>
        \A i \in 1..Len(moved) : ~moved[i].replaced /\ moved[i].src # moved[i].dst

\* C28 witness: a second run under the version policy had to pass over a
\* taken versioned name
C28_Witness ==
    /\ cfg.conflict = "version"
    /\ journal # <<>>
    /\ \E i \in 1..Len(moved) :
          /\ moved[i].dst.name # <<>>
          /\ moved[i].dst.name[Len(moved[i].dst.name)].c >= 1

\* C29: rollback passes over a MOVE or COPY line that has no dst: the
\* step that handles it changes no file and raises no error.
C29_LineWithoutDstIsInert ==
    [][(/\ opc = "rollback"
        /\ rb_idx \in 1..Len(rb_lines)
        /\ rb_lines[rb_idx].kind = "object"
        /\ rb_lines[rb_idx].code \in {"MOVE", "COPY"}
        /\ rb_lines[rb_idx].src # Absent
        /\ rb_lines[rb_idx].dst = Absent)
       => (fs' = fs /\ rb_result' # "raised")]_vars

\* C30: a scan, also one that follows symbolic links through a cycle,
\* yields no file twice (the roots here are distinct and not nested).
C30_EachFileYieldedAtMostOnce ==
    \A i, j \in 1..Len(visited) :
        (visited[i] \in Files /\ visited[i] = visited[j]) => i = j

====
